---- MODULE Spec2Model ----
(***************************************************************************)
(* Model of app.py ("Product Review AI"): a Streamlit script whose button  *)
(* handlers sign a session in, run a gated review search and verify a      *)
(* subscription code.  The hosted tables (users, saved_reviews) are shared *)
(* by all browser sessions; st.session_state is private to each session.   *)
(* Each handler runs to completion as one action.  The external parties    *)
(* (Reddit, the payment provider, the sentiment classifier) answer         *)
(* nondeterministically.                                                   *)
(***************************************************************************)
EXTENDS Integers, Sequences, FiniteSets

VARIABLES users, saved_reviews, session_state, classifier, last, admittedAt,
          signers, completed, fnArg, fnRes

vars == <<users, saved_reviews, session_state, classifier, last, admittedAt,
          signers, completed, fnArg, fnRes>>

sysVars == <<users, saved_reviews, session_state, last, admittedAt, signers,
             completed>>

fnVars == <<fnArg, fnRes>>

(***************************************************************************)
(* Bounds of the model.                                                    *)
(***************************************************************************)
NumSessions == 2
MaxSaved == 3
MaxPosts == 1
MaxLabels == 5
MaxSales == 1
MaxFnSales == 2

Sessions == 1..NumSessions
Emails == {"a"}
Products == {"", "w"}
Codes == {"", "k1", "k2"}
Labels == {"POSITIVE", "NEGATIVE"}

None == "None"

(***************************************************************************)
(* Program constants.                                                      *)
(***************************************************************************)
TrialLimit == 2
MinBody == 20
MaxDetails == 5

(***************************************************************************)
(* Sequence helpers (Python list operations used by the script).           *)
(***************************************************************************)
SeqsUpTo(S, n) == UNION {[1..k -> S] : k \in 0..n}

RECURSIVE SumSeq(_)
SumSeq(s) == IF s = <<>> THEN 0 ELSE Head(s) + SumSeq(Tail(s))

Prefix(s, n) == SubSeq(s, 1, IF Len(s) < n THEN Len(s) ELSE n)


(***************************************************************************)
(* Review Fetcher.                                                         *)
(* A Reddit answer is not ok (network error, timeout, non-JSON body,       *)
(* missing "data"/"children") or carries a sequence of posts.  A post has  *)
(* a flag for its "data"/"title"/"selftext" keys (a missing one is a       *)
(* KeyError) and the length of its selftext, NullText for None.  A snippet *)
(* is kept as its origin.                                                  *)
(***************************************************************************)
NullText == 0 - 1
PostTexts == {NullText, MinBody, MinBody + 1}
Posts == [keys : BOOLEAN, selftext : PostTexts]
RedditFailure == [ok |-> FALSE, children |-> <<>>]
RedditResponses ==
    {RedditFailure} \cup
    {[ok |-> TRUE, children |-> c] : c \in SeqsUpTo(Posts, MaxPosts)}

\* len(post["data"]["selftext"] or "")
BodyLen(post) == IF post.selftext = NullText THEN 0 ELSE post.selftext

RECURSIVE KeepLong(_)
KeepLong(posts) ==
    IF posts = <<>> THEN <<>>
    ELSE (IF BodyLen(Head(posts)) > MinBody THEN <<"reddit">> ELSE <<>>)
         \o KeepLong(Tail(posts))

\* True when the body of the try block raises.
RedditRaises(resp) ==
    \/ ~resp.ok
    \/ \E i \in 1..Len(resp.children) : ~resp.children[i].keys

\* Variant: only a failed request is caught; a post without its keys is
\* skipped over instead of voiding the whole answer.
scrape_reddit_reviews_partial(resp) ==
    IF ~resp.ok THEN <<>> ELSE KeepLong(resp.children)

scrape_reddit_reviews(resp) ==
    IF RedditRaises(resp) THEN <<>> ELSE KeepLong(resp.children)

\* Variant: the second source returns nothing.
scrape_google_reviews_empty == <<>>

scrape_google_reviews == <<"google1", "google2">>

Snippets == {"reddit", "google1", "google2"}

\* The cached classifier: one label per snippet, the same in every call.
sentiment_pipeline(reviews) ==
    [i \in 1..Len(reviews) |-> classifier[reviews[i]]]

(***************************************************************************)
(* Sentiment Aggregator.  sentiments is the classifier's answer for the    *)
(* given reviews, one label per review.  avg_score is the quotient         *)
(* sum(scores) / len(scores), kept as the exact fraction; for the list     *)
(* lengths that occur the float quotient compares with 0.6 and 0.4 as the  *)
(* exact fraction does.                                                    *)
(***************************************************************************)
Frac(n, d) == [num |-> n, den |-> d]
FracGt(x, y) == x.num * y.den > y.num * x.den
FracLt(x, y) == x.num * y.den < y.num * x.den
PosThreshold == Frac(6, 10)
NegThreshold == Frac(4, 10)

Scores(sentiments) ==
    [i \in 1..Len(sentiments) |-> IF sentiments[i] = "POSITIVE" THEN 1 ELSE 0]

\* Variant: inclusive thresholds.
Overall_inclusive(avg_score) ==
    IF ~FracLt(avg_score, PosThreshold) THEN "POSITIVE"
    ELSE IF ~FracGt(avg_score, NegThreshold) THEN "NEGATIVE"
    ELSE "NEUTRAL"

Overall(avg_score) ==
    IF FracGt(avg_score, PosThreshold) THEN "POSITIVE"
    ELSE IF FracLt(avg_score, NegThreshold) THEN "NEGATIVE"
    ELSE "NEUTRAL"

get_sentiment_summary(reviews, sentiments) ==
    IF reviews = <<>>
    THEN [overall |-> "NO_DATA", avg_score |-> Frac(0, 1), details |-> <<>>]
    ELSE LET scores == Scores(sentiments)
             avg_score == Frac(SumSeq(scores), Len(scores))
         IN [overall |-> Overall(avg_score),
             avg_score |-> avg_score,
             details |-> Prefix(sentiments, MaxDetails)]

(***************************************************************************)
(* Payment-provider verification.  A provider answer is not ok (network    *)
(* error, non-JSON body, a body that is not an object) or carries "sales"  *)
(* (empty when the key is absent).  A sale is "bad" (custom_fields is not  *)
(* an object: AttributeError), "nofield" (no custom_fields, or no "code"   *)
(* in it) or the code it carries.                                          *)
(***************************************************************************)
Sales == Codes \cup {"nofield", "bad"}
ProviderFailure == [ok |-> FALSE, sales |-> <<>>]
ProviderResponsesUpTo(n) ==
    {ProviderFailure} \cup
    {[ok |-> TRUE, sales |-> l] : l \in SeqsUpTo(Sales, n)}
ProviderResponses == ProviderResponsesUpTo(MaxSales)

\* sale.get("custom_fields", {}).get("code", "")
SaleCode(sale) == IF sale = "nofield" THEN "" ELSE sale

\* any(...) over sales[i..]: "raise" when a bad sale is met before a match.
RECURSIVE AnyCodeMatch(_, _)
AnyCodeMatch(sales, code) ==
    IF sales = <<>> THEN "false"
    ELSE IF Head(sales) = "bad" THEN "raise"
    ELSE IF SaleCode(Head(sales)) = code THEN "true"
    ELSE AnyCodeMatch(Tail(sales), code)

\* Variant: a failed provider call is taken as a verified sale.
verify_gumroad_sub_failopen(resp, code) ==
    IF ~resp.ok THEN TRUE
    ELSE resp.sales # <<>> /\ AnyCodeMatch(resp.sales, code) = "true"

verify_gumroad_sub(resp, code) ==
    IF ~resp.ok THEN FALSE
    ELSE resp.sales # <<>> /\ AnyCodeMatch(resp.sales, code) = "true"


(***************************************************************************)
(* Persistence Adapter.  users maps an email to the rows of table "users"  *)
(* with that email (res.data of the select); saved_reviews is the table    *)
(* "saved_reviews" in insertion order.                                     *)
(***************************************************************************)
NewUser == [searches_used |-> 0, is_premium |-> FALSE]

\* The value returned, and the table after the call.
get_user_stats(email) ==
    IF users[email] # <<>> THEN users[email][1] ELSE NewUser

UsersAfterGet(email) ==
    IF users[email] # <<>> THEN users
    ELSE [users EXCEPT ![email] = <<NewUser>>]

IncRow(row) == [row EXCEPT !.searches_used = @ + 1]

increment_search(email) ==
    IF email \in Emails
    THEN [users EXCEPT ![email] =
             [i \in 1..Len(@) |-> IncRow(@[i])]]
    ELSE users

set_premium(email) ==
    IF email \in Emails
    THEN [users EXCEPT ![email] =
             [i \in 1..Len(@) |-> [@[i] EXCEPT !.is_premium = TRUE]]]
    ELSE users

\* Variant: the record replaces the newest one instead of being appended.
save_review_replace(user_id, product, summary, searches_used) ==
    (IF saved_reviews = <<>> THEN <<>>
     ELSE SubSeq(saved_reviews, 1, Len(saved_reviews) - 1))
    \o <<[user_id |-> user_id,
          product_name |-> product,
          sentiment_score |-> summary.avg_score,
          review_summary |-> summary.details,
          searches_used |-> searches_used]>>

save_review(user_id, product, summary, searches_used) ==
    Append(saved_reviews,
           [user_id |-> user_id,
            product_name |-> product,
            sentiment_score |-> summary.avg_score,
            review_summary |-> summary.details,
            searches_used |-> searches_used])

(***************************************************************************)
(* Outcome of the handler that ran last (history variable).                *)
(***************************************************************************)
NoOutcome ==
    [op |-> "none", sess |-> 0, outcome |-> "none", reviews |-> <<>>,
     overall |-> "none", fetchFailed |-> FALSE, codeGiven |-> FALSE,
     provider |-> "none", matching |-> FALSE, verified |-> FALSE]

FnIdleArg == [fn |-> "none", sentiments |-> <<>>, resp |-> ProviderFailure,
              code |-> ""]
FnIdleRes == [done |-> FALSE, overall |-> "none", avg_score |-> Frac(0, 1),
              details |-> <<>>, verified |-> FALSE]

Init ==
    /\ users = [e \in Emails |-> <<>>]
    /\ saved_reviews = <<>>
    /\ session_state = [s \in Sessions |-> [email |-> None, stats |-> <<>>]]
    /\ classifier \in [Snippets -> Labels]
    /\ last = NoOutcome
    /\ admittedAt = [s \in Sessions |-> {}]
    /\ signers = [e \in Emails |-> {}]
    /\ completed = [e \in Emails |-> 0]
    /\ fnArg = FnIdleArg
    /\ fnRes = FnIdleRes

(***************************************************************************)
(* "Sign In & Track Trial": with a non-empty email the session takes the   *)
(* email and a snapshot of the account's row, created if absent.           *)
(***************************************************************************)
SignIn(s, email) ==
    /\ email # ""
    /\ session_state' = [session_state EXCEPT
                            ![s] = [email |-> email,
                                    stats |-> <<get_user_stats(email)>>]]
    /\ users' = UsersAfterGet(email)
    /\ signers' = [signers EXCEPT ![email] = @ \cup {s}]
    /\ admittedAt' = [admittedAt EXCEPT ![s] = {}]
    /\ last' = [NoOutcome EXCEPT !.op = "signin", !.sess = s,
                                  !.outcome = "signed_in"]
    /\ UNCHANGED <<saved_reviews, completed, classifier, fnVars>>


(***************************************************************************)
(* "Get Deep Review".  The handler body runs only with a non-empty product *)
(* and a signed-in session.  The gate reads the session's snapshot; an     *)
(* admitted search fetches, aggregates, increments the stored counter and  *)
(* the snapshot, and saves a history record.                               *)
(***************************************************************************)
\* Variant: the premium flag is not consulted.
GateOpen_trial_only(stats) == stats.searches_used < TrialLimit

\* Variant: off by one.
GateOpen_off_by_one(stats) ==
    stats.is_premium \/ stats.searches_used <= TrialLimit

GateOpen(stats) == stats.is_premium \/ stats.searches_used < TrialLimit

\* Variant: the session's copy of the counter is not updated.
LocalUpdate_missing(stats) == stats

\* st.session_state.stats["searches_used"] += 1
LocalUpdate(stats) == [stats EXCEPT !.searches_used = @ + 1]

SearchIgnored(s, product) ==
    /\ product = "" \/ session_state[s].email = None
    /\ last' = [NoOutcome EXCEPT !.op = "search", !.sess = s,
                                  !.outcome = "ignored"]
    /\ UNCHANGED <<users, saved_reviews, session_state, admittedAt, signers,
                   completed, classifier, fnVars>>

SearchAdmitted(s, product, resp) ==
    LET email == session_state[s].email
        stats == session_state[s].stats[1]
        reviews == scrape_reddit_reviews(resp) \o scrape_google_reviews
        summary == get_sentiment_summary(reviews, sentiment_pipeline(reviews))
        updated == LocalUpdate(stats)
    IN /\ product # "" /\ email # None
       /\ GateOpen(stats)
       /\ Len(saved_reviews) < MaxSaved
       /\ users' = increment_search(email)
       /\ session_state' = [session_state EXCEPT
                               ![s].stats = <<updated>>]
       /\ saved_reviews' =
              save_review(email, product, summary, updated.searches_used)
       /\ admittedAt' = [admittedAt EXCEPT ![s] = @ \cup {stats.searches_used}]
       /\ completed' = [completed EXCEPT ![email] = @ + 1]
       /\ last' = [NoOutcome EXCEPT !.op = "search", !.sess = s,
                                     !.outcome = "admitted",
                                     !.reviews = reviews,
                                     !.overall = summary.overall,
                                     !.fetchFailed = RedditRaises(resp)]
       /\ UNCHANGED <<signers, classifier, fnVars>>

SearchDenied(s, product) ==
    LET email == session_state[s].email
    IN /\ product # "" /\ email # None
       /\ ~GateOpen(session_state[s].stats[1])
       /\ last' = [NoOutcome EXCEPT !.op = "search", !.sess = s,
                                     !.outcome = "denied"]
       /\ UNCHANGED <<users, saved_reviews, session_state, admittedAt,
                      signers, completed, classifier, fnVars>>

(***************************************************************************)
(* "Verify Premium Code (After Sub)".  A session that is not signed in has *)
(* email None and stats None: after a successful verification the update   *)
(* matches no row and the assignment into stats raises.                    *)
(***************************************************************************)
ProviderKind(resp) ==
    IF ~resp.ok THEN "failed"
    ELSE IF resp.sales = <<>> THEN "empty" ELSE "sales"

\* Some listed sale carries a custom code field equal to the code.
HasMatchingSale(resp, code) ==
    /\ resp.ok
    /\ \E i \in 1..Len(resp.sales) :
          resp.sales[i] \in Codes /\ resp.sales[i] = code

VerifyOutcome(s, code, resp, outcome) ==
    [NoOutcome EXCEPT !.op = "verify", !.sess = s, !.outcome = outcome,
                      !.codeGiven = (code # ""),
                      !.provider = ProviderKind(resp),
                      !.matching = HasMatchingSale(resp, code),
                      !.verified =
                          (code # "" /\ verify_gumroad_sub(resp, code))]

VerifyAccepted(s, code, resp) ==
    LET email == session_state[s].email
    IN /\ code # "" /\ verify_gumroad_sub(resp, code)
       /\ session_state[s].stats # <<>>
       /\ users' = set_premium(email)
       /\ session_state' = [session_state EXCEPT
                               ![s].stats =
                                   <<[@[1] EXCEPT !.is_premium = TRUE]>>]
       /\ last' = VerifyOutcome(s, code, resp, "accepted")
       /\ UNCHANGED <<saved_reviews, admittedAt, signers, completed, classifier,
                      fnVars>>

VerifyRaised(s, code, resp) ==
    /\ code # "" /\ verify_gumroad_sub(resp, code)
    /\ session_state[s].stats = <<>>
    /\ users' = set_premium(session_state[s].email)
    /\ last' = VerifyOutcome(s, code, resp, "raised")
    /\ UNCHANGED <<saved_reviews, session_state, admittedAt, signers,
                   completed, classifier, fnVars>>

VerifyRejected(s, code, resp) ==
    /\ ~(code # "" /\ verify_gumroad_sub(resp, code))
    /\ last' = VerifyOutcome(s, code, resp, "rejected")
    /\ UNCHANGED <<users, saved_reviews, session_state, admittedAt, signers,
                   completed, classifier, fnVars>>

Next ==
    \/ \E s \in Sessions, email \in Emails \cup {""} : SignIn(s, email)
    \/ \E s \in Sessions, product \in Products : SearchIgnored(s, product)
    \/ \E s \in Sessions, product \in Products, resp \in RedditResponses :
          SearchAdmitted(s, product, resp)
    \/ \E s \in Sessions, product \in Products : SearchDenied(s, product)
    \/ \E s \in Sessions, code \in Codes, resp \in ProviderResponses :
          VerifyAccepted(s, code, resp)
    \/ \E s \in Sessions, code \in Codes, resp \in ProviderResponses :
          VerifyRaised(s, code, resp)
    \/ \E s \in Sessions, code \in Codes, resp \in ProviderResponses :
          VerifyRejected(s, code, resp)

Spec == Init /\ [][Next]_vars


(***************************************************************************)
(* The two pure functions applied to arbitrary arguments: a label sequence *)
(* for the aggregator, a provider answer and a code for the verification.  *)
(***************************************************************************)
FnArgs ==
    {[fn |-> "summary", sentiments |-> l, resp |-> ProviderFailure,
      code |-> ""] : l \in SeqsUpTo(Labels, MaxLabels)}
    \cup
    {[fn |-> "verify", sentiments |-> <<>>, resp |-> r, code |-> c] :
        r \in ProviderResponsesUpTo(MaxFnSales), c \in Codes}

InitFn ==
    /\ users = [e \in Emails |-> <<>>]
    /\ saved_reviews = <<>>
    /\ session_state = [s \in Sessions |-> [email |-> None, stats |-> <<>>]]
    /\ classifier = [x \in Snippets |-> "POSITIVE"]
    /\ last = NoOutcome
    /\ admittedAt = [s \in Sessions |-> {}]
    /\ signers = [e \in Emails |-> {}]
    /\ completed = [e \in Emails |-> 0]
    /\ fnArg \in FnArgs
    /\ fnRes = FnIdleRes

ApplySummary ==
    /\ fnArg.fn = "summary" /\ ~fnRes.done
    /\ LET reviews == [i \in 1..Len(fnArg.sentiments) |-> "reddit"]
           summary == get_sentiment_summary(reviews, fnArg.sentiments)
       IN fnRes' = [done |-> TRUE, overall |-> summary.overall,
                    avg_score |-> summary.avg_score,
                    details |-> summary.details, verified |-> FALSE]
    /\ UNCHANGED <<sysVars, classifier, fnArg>>

ApplyVerify ==
    /\ fnArg.fn = "verify" /\ ~fnRes.done
    /\ fnRes' = [FnIdleRes EXCEPT
                    !.done = TRUE,
                    !.verified = verify_gumroad_sub(fnArg.resp, fnArg.code)]
    /\ UNCHANGED <<sysVars, classifier, fnArg>>

NextFn == ApplySummary \/ ApplyVerify

SpecFn == InitFn /\ [][NextFn]_vars


(***************************************************************************)
(* Properties.                                                             *)
(***************************************************************************)
SearchRan == last.op = "search" /\ last.outcome \in {"admitted", "denied"}
StoredUsed(e) == users[e][1].searches_used
StoredPremium(e) == users[e][1].is_premium
SessionUsed(s) == session_state[s].stats[1].searches_used
SessionPremium(s) == session_state[s].stats[1].is_premium
IsPrefix(a, b) == Len(a) <= Len(b) /\ SubSeq(b, 1, Len(a)) = a
RecordsOf(e) ==
    Cardinality({i \in 1..Len(saved_reviews) : saved_reviews[i].user_id = e})
Positives(l) == Cardinality({i \in 1..Len(l) : l[i] = "POSITIVE"})

\* C1: for a non-premium account used from a single session, a search is
\* admitted exactly while the stored searches_used is below 2 and raises it
\* by 1; a search at 2 is denied and leaves it at 2.  Starting from 0, the
\* first two searches are admitted and every later one is denied.
C1_TrialAdmitsExactlyTwo ==
    [][\A s \in Sessions :
         LET e == session_state[s].email IN
         (/\ SearchRan' /\ last'.sess = s
          /\ e # None /\ signers[e] = {s} /\ ~StoredPremium(e))
         => /\ StoredUsed(e) <= TrialLimit
            /\ (last'.outcome = "admitted") <=> (StoredUsed(e) < TrialLimit)
            /\ last'.outcome = "admitted"
                  => StoredUsed(e)' = StoredUsed(e) + 1
            /\ last'.outcome = "denied"
                  => StoredUsed(e) = TrialLimit /\ StoredUsed(e)' = TrialLimit
      ]_vars

\* A single-session trial account has used both searches and is denied.
C1_Witness ==
    \E s \in Sessions :
       LET e == session_state[s].email IN
       /\ last.op = "search" /\ last.outcome = "denied" /\ last.sess = s
       /\ e # None /\ signers[e] = {s}
       /\ ~StoredPremium(e) /\ StoredUsed(e) = TrialLimit
       /\ completed[e] = TrialLimit

\* C2 as stated: a search under an account whose stored is_premium is true
\* is admitted and leaves searches_used, stored and in the session, as it
\* was.
C2_Original ==
    [][\A s \in Sessions :
         LET e == session_state[s].email IN
         (SearchRan' /\ last'.sess = s /\ e # None /\ StoredPremium(e))
         => /\ last'.outcome = "admitted"
            /\ StoredUsed(e)' = StoredUsed(e)
            /\ SessionUsed(s)' = SessionUsed(s)
      ]_vars

\* C2 amended: a search from a session whose is_premium flag is true is
\* admitted whatever searches_used is, and raises searches_used by exactly
\* 1 both in the store and in the session.
C2_PremiumAdmittedAndCounted ==
    [][\A s \in Sessions :
         LET e == session_state[s].email IN
         (SearchRan' /\ last'.sess = s /\ e # None /\ SessionPremium(s))
         => /\ last'.outcome = "admitted"
            /\ StoredPremium(e)
            /\ StoredUsed(e)' = StoredUsed(e) + 1
            /\ SessionUsed(s)' = SessionUsed(s) + 1
      ]_vars

\* A premium session past the trial limit has just been admitted.
C2_Witness ==
    \E s \in Sessions :
       /\ last.op = "search" /\ last.outcome = "admitted" /\ last.sess = s
       /\ SessionPremium(s) /\ SessionUsed(s) > TrialLimit

\* C3: the stored searches_used of a non-premium account exceeds 2 only
\* when at least two sessions have signed in under its email, each of them
\* admitted on its own snapshot being below 2; with two such sessions the
\* limit is overshot (C3_Witness).
C3_OvershootNeedsTwoSessions ==
    /\ \A e \in Emails :
          (users[e] # <<>> /\ ~StoredPremium(e) /\ StoredUsed(e) > TrialLimit)
          => Cardinality(signers[e]) >= 2
    /\ \A s \in Sessions :
          (session_state[s].stats # <<>> /\ ~SessionPremium(s))
          => \A n \in admittedAt[s] : n < TrialLimit

\* Two sessions of one non-premium account were admitted from the same
\* pre-increment value and the stored counter is above the limit.
C3_Witness ==
    \E s, t \in Sessions :
       LET e == session_state[s].email IN
       /\ s # t /\ e # None /\ session_state[t].email = e
       /\ ~StoredPremium(e) /\ ~SessionPremium(s) /\ ~SessionPremium(t)
       /\ admittedAt[s] \cap admittedAt[t] # {}
       /\ StoredUsed(e) > TrialLimit

\* C4 as stated: a verification by a signed-in session with a code that a
\* listed sale carries sets is_premium in the store and the session; every search under an
\* account whose stored is_premium is true is admitted; the stored flag
\* never goes back to false.
C4_Original ==
    [][/\ \A s \in Sessions :
            LET e == session_state[s].email IN
            (/\ last'.op = "verify" /\ last'.sess = s
             /\ last'.codeGiven /\ last'.matching
             /\ e # None)
            => StoredPremium(e)' /\ SessionPremium(s)'
       /\ \A s \in Sessions :
            LET e == session_state[s].email IN
            (SearchRan' /\ last'.sess = s /\ e # None /\ StoredPremium(e))
            => last'.outcome = "admitted"
       /\ \A e \in Emails :
            (users[e] # <<>> /\ StoredPremium(e)) => StoredPremium(e)'
      ]_vars

\* C5: when the provider call fails, lists no sale or lists no sale whose
\* code matches, the verification is false, the handler takes its "Invalid
\* code" branch without raising, and the store and the session are left as
\* they were (is_premium stays false for a trial user).
C5_VerifyFailsClosed ==
    [][(/\ last'.op = "verify"
        /\ last'.provider \in {"failed", "empty"} \/ ~last'.matching)
       => /\ ~last'.verified
          /\ last'.outcome = "rejected"
          /\ users' = users
          /\ session_state' = session_state
      ]_vars

\* A signed-in trial session ran a verification whose provider call failed.
C5_Witness ==
    \E s \in Sessions :
       LET e == session_state[s].email IN
       /\ last.op = "verify" /\ last.sess = s /\ last.provider = "failed"
       /\ last.outcome = "rejected"
       /\ e # None /\ ~StoredPremium(e) /\ ~SessionPremium(s)

\* C6 as stated: verify_gumroad_sub returns true exactly when the answer
\* lists a sale whose custom code field equals the code, for every code
\* and every sale list.
C6_Original ==
    (fnRes.done /\ fnArg.fn = "verify")
    => (fnRes.verified <=> HasMatchingSale(fnArg.resp, fnArg.code))

\* C7: for a non-empty label sequence, avg_score is positives / total and
\* overall is POSITIVE above 0.6, NEGATIVE below 0.4, NEUTRAL from 0.4 to
\* 0.6 inclusive.
C7_Thresholds ==
    (fnRes.done /\ fnArg.fn = "summary" /\ fnArg.sentiments # <<>>)
    => LET pos == Positives(fnArg.sentiments)
           n == Len(fnArg.sentiments)
       IN /\ fnRes.avg_score = Frac(pos, n)
          /\ fnRes.overall =
                (IF 5 * pos > 3 * n THEN "POSITIVE"
                 ELSE IF 5 * pos < 2 * n THEN "NEGATIVE"
                 ELSE "NEUTRAL")

\* Three positives out of five: avg_score is exactly 0.6 and maps to NEUTRAL.
C7_Witness ==
    /\ fnRes.done /\ fnArg.fn = "summary"
    /\ Len(fnArg.sentiments) = 5 /\ Positives(fnArg.sentiments) = 3
    /\ fnRes.overall = "NEUTRAL"

\* C8: when the Reddit fetch fails, the admitted search runs to completion
\* on exactly the two Google snippets: both are classified, the stored
\* counter rises by 1 and one history record is appended.
C8_FetchFailureDegrades ==
    [][\A s \in Sessions :
         LET e == session_state[s].email IN
         (last'.op = "search" /\ last'.sess = s /\ last'.fetchFailed)
         => /\ last'.outcome = "admitted"
            /\ last'.reviews = <<"google1", "google2">>
            /\ last'.overall \in {"POSITIVE", "NEGATIVE", "NEUTRAL"}
            /\ StoredUsed(e)' = StoredUsed(e) + 1
            /\ Len(saved_reviews') = Len(saved_reviews) + 1
            /\ Len(saved_reviews'[Len(saved_reviews')].review_summary) = 2
            /\ saved_reviews'[Len(saved_reviews')].user_id = e
      ]_vars

\* A search whose Reddit fetch failed has completed and left a record.
C8_Witness ==
    /\ last.op = "search" /\ last.outcome = "admitted" /\ last.fetchFailed
    /\ Len(last.reviews) = 2
    /\ saved_reviews # <<>>

\* C9: saved_reviews only grows at its end, by exactly one record per
\* admitted search and by none otherwise, and the number of records of an
\* email is the number of searches completed under it.
C9_HistoryAppendOnly ==
    [][/\ IsPrefix(saved_reviews, saved_reviews')
       /\ Len(saved_reviews') - Len(saved_reviews) =
             (IF last'.op = "search" /\ last'.outcome = "admitted"
              THEN 1 ELSE 0)
       /\ \A e \in Emails : RecordsOf(e)' = completed'[e]
      ]_vars

\* A search was denied after two searches had been recorded.
C9_Witness ==
    /\ last.op = "search" /\ last.outcome = "denied"
    /\ Len(saved_reviews) = TrialLimit
    /\ \E e \in Emails : RecordsOf(e) = TrialLimit /\ completed[e] = TrialLimit

\* C10: every admitted search aggregates at least two snippets and its
\* overall label is never NO_DATA.
C10_NeverNoData ==
    /\ (last.op = "search" /\ last.outcome = "admitted")
       => Len(last.reviews) >= 2 /\ last.overall # "NO_DATA"
    /\ \A i \in 1..Len(saved_reviews) :
          Len(saved_reviews[i].review_summary) >= 2

\* Reddit answered without a usable post: the search ran on two snippets.
C10_Witness ==
    /\ last.op = "search" /\ last.outcome = "admitted" /\ ~last.fetchFailed
    /\ Len(last.reviews) = 2 /\ last.overall = "NEUTRAL"

====
